---- MODULE Spec2Model ----
(***************************************************************************)
(* ts-data-class: the value-semantics kernel (stableStringify, deepEqual,  *)
(* hashCode, clone, mergeDeep) and the DataClass record operations built   *)
(* on it, over a heap of JavaScript objects and arrays.                    *)
(*                                                                         *)
(* A value is a pair <<tag, payload>>.  Objects and arrays live in the     *)
(* heap and are referred to by address, so identity, sharing and cycles    *)
(* are those of the program.  Property names are one-character strings     *)
(* and are held as their UTF-16 code, so that the default sort() of the    *)
(* source is the numeric order of the codes.                               *)
(***************************************************************************)
EXTENDS Integers, Sequences, FiniteSets, TLC

VARIABLES heap, heap0, pc, last

vars == <<heap, heap0, pc, last>>

\* ---------------------------------------------------------------- bounds
\* Size of what the client program builds before it calls the library: the
\* objects and arrays it makes plus the properties and elements it writes.
MaxSize == 5
\* Number of fields the client program writes into the two values it compares.
MaxFields == 3
\* Call-stack depth of the host; deeper recursion throws RangeError.
MaxStack == 8

\* ---------------------------------------------------------------- values
Undefined == <<"undefined", 0>>
Null == <<"null", 0>>
NaN == <<"NaN", 0>>
Num(n) == <<"number", n>>
Str(c) == <<"string", c>>
Ref(a) == <<"ref", a>>

\* The property names the client program writes: 'a' and 'b'.
Keys == {97, 98}

\* The primitive values the client program writes into the values it passes
\* to the kernel: undefined, null, NaN, 1, "B".
PrimVals == {Undefined, Null, NaN, Num(1), Str(66)}

\* The primitive values it writes into records and patches: undefined and 1.
PatchVals == {Undefined, Num(1)}

isPrimitive(v) == v[1] # "ref"

IsArray(h, v) == v[1] = "ref" /\ h[v[2]].kind = "array"

IsObject(h, v) == v[1] = "ref" /\ h[v[2]].kind = "object"

\* a === b: NaN is not equal to itself, references are equal by identity.
StrictEq(a, b) == a = b /\ a # NaN

\* A fresh {} or [].
EmptyObject == [kind |-> "object", keys |-> <<>>, vals |-> <<>>, sealed |-> FALSE]
EmptyArray == [kind |-> "array", keys |-> <<>>, vals |-> <<>>, sealed |-> FALSE]

\* Index of key k in the key list ks, 0 when absent.
RECURSIVE IndexOf(_, _, _)
IndexOf(ks, k, i) ==
  IF i > Len(ks) THEN 0
  ELSE IF ks[i] = k THEN i
  ELSE IndexOf(ks, k, i + 1)

\* Object.keys(o): own property names in insertion order; the indices of an
\* array are the names "0", "1", ... (codes 48, 49, ...).
ObjectKeys(o) ==
  IF o.kind = "array" THEN [i \in 1..Len(o.vals) |-> 47 + i]
  ELSE o.keys

\* o[k]: undefined when o has no property k.
Get(o, k) ==
  IF o.kind = "array"
  THEN (IF k - 47 \in 1..Len(o.vals) THEN o.vals[k - 47] ELSE Undefined)
  ELSE (IF IndexOf(o.keys, k, 1) = 0 THEN Undefined
        ELSE o.vals[IndexOf(o.keys, k, 1)])

HasOwn(o, k) == IndexOf(ObjectKeys(o), k, 1) # 0

\* The object after o[k] = v, for an object o on which the write is allowed.
PutProp(o, k, v) ==
  IF IndexOf(o.keys, k, 1) # 0
  THEN [o EXCEPT !.vals[IndexOf(o.keys, k, 1)] = v]
  ELSE [o EXCEPT !.keys = Append(@, k), !.vals = Append(@, v)]

\* A sealed object rejects the creation of a property (strict mode: TypeError).
WriteRejected(o, k) == o.sealed /\ IndexOf(o.keys, k, 1) = 0


\* ------------------------------------------------------- stableStringify
Ok(out, seen) == [err |-> "none", out |-> out, seen |-> seen]

Throw(name, seen) == [err |-> name, out |-> <<>>, seen |-> seen]

\* Decimal digits of a non-negative integer.
RECURSIVE Digits(_)
Digits(n) == IF n < 10 THEN <<48 + n>> ELSE Append(Digits(n \div 10), 48 + (n % 10))

\* JSON.stringify of a primitive other than undefined: null and NaN give
\* null, a number its digits, a string its characters between quotes.
JSONStringify(v) ==
  CASE v[1] = "number" -> Digits(v[2])
    [] v[1] = "string" -> <<34, v[2], 34>>
    [] OTHER -> <<110, 117, 108, 108>>

\* JSON.stringify(k) for a property name.
JSONKey(k) == <<34, k, 34>>

\* ks with k inserted before the first larger name.
RECURSIVE InsertSorted(_, _)
InsertSorted(ks, k) ==
  IF ks = <<>> THEN <<k>>
  ELSE IF k <= Head(ks) THEN <<k>> \o ks
  ELSE <<Head(ks)>> \o InsertSorted(Tail(ks), k)

RECURSIVE SortFrom(_, _, _)
SortFrom(ks, i, acc) ==
  IF i > Len(ks) THEN acc ELSE SortFrom(ks, i + 1, InsertSorted(acc, ks[i]))

\* Array.prototype.sort() with no comparator, on one-character names.
Sort(ks) == SortFrom(ks, 1, <<>>)

\* The keys as Object.keys gives them, the sort() left out.
SortedKeys_Unsorted(o) == ObjectKeys(o)

\* Object.keys(v).sort()
SortedKeys(o) == Sort(ObjectKeys(o))

\* seen.has / seen.add of the WeakSet.
SeenHas(seen, a) == a \in seen
SeenAdd(seen, a) == seen \cup {a}

\* The node left in the set when its subtree returns.
SeenDelete_Keep(seen, a) == seen

\* seen.delete
SeenDelete(seen, a) == seen \ {a}

\* entries.join(',') step: the text so far with one more piece.
Join(acc, first, piece) == IF first THEN piece ELSE acc \o <<44>> \o piece

RECURSIVE stringifyInternal(_, _, _, _)
RECURSIVE StringifyElems(_, _, _, _, _, _)
RECURSIVE StringifyEntries(_, _, _, _, _, _, _)

\* v.map(stringifyInternal).join(','), element i onwards; the first throw ends it.
StringifyElems(h, o, i, seen, depth, acc) ==
  IF i > Len(o.vals) THEN Ok(acc, seen)
  ELSE LET r == stringifyInternal(h, o.vals[i], seen, depth)
       IN IF r.err # "none" THEN r
          ELSE StringifyElems(h, o, i + 1, r.seen, depth, Join(acc, i = 1, r.out))

\* The loop over the sorted keys, key i onwards; first tells whether entries
\* is still empty.
StringifyEntries(h, o, ks, i, seen, depth, acc) ==
  IF i > Len(ks) THEN Ok(acc.out, seen)
  ELSE LET child == Get(o, ks[i])
       IN IF child = Undefined
          THEN StringifyEntries(h, o, ks, i + 1, seen, depth, acc)
          ELSE LET r == stringifyInternal(h, child, seen, depth)
               IN IF r.err # "none" THEN r
                  ELSE StringifyEntries(h, o, ks, i + 1, r.seen, depth,
                         [first |-> FALSE,
                          out |-> Join(acc.out, acc.first,
                                       JSONKey(ks[i]) \o <<58>> \o r.out)])

stringifyInternal(h, v, seen, depth) ==
  IF depth > MaxStack THEN Throw("RangeError", seen)
  ELSE IF isPrimitive(v)
  THEN (IF v = Undefined THEN Ok(<<110, 117, 108, 108>>, seen)
        ELSE Ok(JSONStringify(v), seen))
  ELSE IF IsArray(h, v)
  THEN LET r == StringifyElems(h, h[v[2]], 1, seen, depth + 1, <<>>)
       IN IF r.err # "none" THEN r ELSE Ok(<<91>> \o r.out \o <<93>>, r.seen)
  ELSE IF SeenHas(seen, v[2]) THEN Throw("TypeError", seen)
  ELSE LET r == StringifyEntries(h, h[v[2]], SortedKeys(h[v[2]]), 1,
                                 SeenAdd(seen, v[2]), depth + 1,
                                 [first |-> TRUE, out |-> <<>>])
       IN IF r.err # "none" THEN r
          ELSE Ok(<<123>> \o r.out \o <<125>>, SeenDelete(r.seen, v[2]))

stableStringify(h, v) == stringifyInternal(h, v, {}, 1)

\* -------------------------------------------------------------- hashCode
\* A 32-bit word as <<high 16 bits, low 16 bits>>.
\* hash = (hash << 5) - hash + chr; hash |= 0: 31 * hash + chr modulo 2^32.
HashStep(hash, chr) ==
  LET lo == hash[2] * 31 + chr
      hi == hash[1] * 31 + (lo \div 65536)
  IN <<hi % 65536, lo % 65536>>

RECURSIVE HashFrom(_, _, _)
HashFrom(str, i, hash) ==
  IF i > Len(str) THEN hash ELSE HashFrom(str, i + 1, HashStep(hash, str[i]))

\* hashCode(value): the fold over stableStringify(value), hash >>> 0; a throw
\* of stableStringify is the throw of hashCode.
hashCode(h, v) ==
  LET s == stableStringify(h, v)
  IN IF s.err # "none" THEN [err |-> s.err, val |-> <<0, 0>>]
     ELSE [err |-> "none", val |-> HashFrom(s.out, 1, <<0, 0>>)]

\* ------------------------------------------------------------- deepEqual
RECURSIVE deepEqualAt(_, _, _, _)
RECURSIVE DeepEqualElems(_, _, _, _, _)
RECURSIVE DeepEqualKeys(_, _, _, _, _, _, _)

\* The loop over the indices of two arrays of equal length.
DeepEqualElems(h, a, b, i, depth) ==
  IF i > Len(a.vals) THEN [err |-> "none", val |-> TRUE]
  ELSE LET r == deepEqualAt(h, a.vals[i], b.vals[i], depth)
       IN IF r.err # "none" \/ ~r.val THEN r
          ELSE DeepEqualElems(h, a, b, i + 1, depth)

\* The loop over the sorted key lists of two objects with as many keys.
DeepEqualKeys(h, a, b, aKeys, bKeys, i, depth) ==
  IF i > Len(aKeys) THEN [err |-> "none", val |-> TRUE]
  ELSE IF aKeys[i] # bKeys[i] THEN [err |-> "none", val |-> FALSE]
  ELSE LET r == deepEqualAt(h, Get(a, aKeys[i]), Get(b, aKeys[i]), depth)
       IN IF r.err # "none" \/ ~r.val THEN r
          ELSE DeepEqualKeys(h, a, b, aKeys, bKeys, i + 1, depth)

deepEqualAt(h, a, b, depth) ==
  IF depth > MaxStack THEN [err |-> "RangeError", val |-> FALSE]
  ELSE IF StrictEq(a, b) THEN [err |-> "none", val |-> TRUE]
  ELSE IF isPrimitive(a) \/ isPrimitive(b) THEN [err |-> "none", val |-> StrictEq(a, b)]
  ELSE IF IsArray(h, a) /\ IsArray(h, b)
  THEN (IF Len(h[a[2]].vals) # Len(h[b[2]].vals) THEN [err |-> "none", val |-> FALSE]
        ELSE DeepEqualElems(h, h[a[2]], h[b[2]], 1, depth + 1))
  ELSE IF Len(SortedKeys(h[a[2]])) # Len(SortedKeys(h[b[2]]))
  THEN [err |-> "none", val |-> FALSE]
  ELSE DeepEqualKeys(h, h[a[2]], h[b[2]], SortedKeys(h[a[2]]), SortedKeys(h[b[2]]),
                     1, depth + 1)

deepEqual(h, a, b) == deepEqualAt(h, a, b, 1)

\* ----------------------------------------------------------------- clone
\* The heap with a new object o; its address is Len(h) + 1.
Alloc(h, o) == Append(h, o)

\* { ...value }: a new plain object with the own properties of o, in order.
Spread(o) == [kind |-> "object", keys |-> ObjectKeys(o), vals |-> o.vals, sealed |-> FALSE]

\* value.slice(): a new array with the same elements.
Slice(o) == [kind |-> "array", keys |-> <<>>, vals |-> o.vals, sealed |-> FALSE]

RECURSIVE deepCloneAt(_, _, _)
RECURSIVE DeepCloneSlots(_, _, _, _, _)

\* The loop over the elements or keys of src, filling the new node at dst.
DeepCloneSlots(h, src, dst, i, depth) ==
  IF i > Len(src.vals) THEN [err |-> "none", heap |-> h, val |-> Ref(dst)]
  ELSE LET r == deepCloneAt(h, src.vals[i], depth)
       IN IF r.err # "none" THEN r
          ELSE DeepCloneSlots(
                 [r.heap EXCEPT ![dst].vals = Append(@, r.val),
                                ![dst].keys = IF src.kind = "array" THEN <<>>
                                              ELSE Append(@, src.keys[i])],
                 src, dst, i + 1, depth)

deepCloneAt(h, v, depth) ==
  IF depth > MaxStack THEN [err |-> "RangeError", heap |-> h, val |-> Undefined]
  ELSE IF isPrimitive(v) THEN [err |-> "none", heap |-> h, val |-> v]
  ELSE DeepCloneSlots(Alloc(h, IF IsArray(h, v) THEN EmptyArray ELSE EmptyObject),
                      h[v[2]], Len(h) + 1, 1, depth + 1)

deepClone(h, v) == deepCloneAt(h, v, 1)

\* clone(value, options)
clone(h, v, deep) ==
  IF ~deep
  THEN (IF IsArray(h, v)
        THEN [err |-> "none", heap |-> Alloc(h, Slice(h[v[2]])), val |-> Ref(Len(h) + 1)]
        ELSE IF IsObject(h, v)
        THEN [err |-> "none", heap |-> Alloc(h, Spread(h[v[2]])), val |-> Ref(Len(h) + 1)]
        ELSE [err |-> "none", heap |-> h, val |-> v])
  ELSE deepClone(h, v)

\* ------------------------------------------------------------- mergeDeep
RECURSIVE mergeDeepAt(_, _, _, _)
RECURSIVE MergeKeys(_, _, _, _, _, _)

\* base[k] = v on the object at address base: a rejected write throws and
\* leaves the heap as the earlier writes made it.
Assign(h, base, k, v) ==
  IF WriteRejected(h[base], k) THEN [err |-> "TypeError", heap |-> h]
  ELSE [err |-> "none", heap |-> [h EXCEPT ![base] = PutProp(@, k, v)]]

\* The object the recursion of mergeDeep merges into: { ...bv }.
MergeTarget(h, bv) == [heap |-> Alloc(h, Spread(h[bv[2]])), addr |-> Len(h) + 1]

\* No key skipped: an undefined patch value is written like any other.
SkipsKey_Never(pv) == FALSE

\* if (pv === undefined) continue
SkipsKey(pv) == pv = Undefined

\* The loop over Object.keys(patch), key i onwards.
MergeKeys(h, base, patch, ks, i, depth) ==
  IF i > Len(ks) THEN [err |-> "none", heap |-> h]
  ELSE LET k == ks[i]
           pv == Get(h[patch], k)
           bv == Get(h[base], k)
       IN IF SkipsKey(pv) THEN MergeKeys(h, base, patch, ks, i + 1, depth)
          ELSE LET w == IF IsArray(h, pv)
                        THEN Assign(Alloc(h, Slice(h[pv[2]])), base, k, Ref(Len(h) + 1))
                        ELSE IF IsObject(h, pv) /\ IsObject(h, bv)
                        THEN LET t == MergeTarget(h, bv)
                                 r == mergeDeepAt(t.heap, t.addr, pv, depth)
                             IN IF r.err # "none" THEN r
                                ELSE Assign(r.heap, base, k, Ref(t.addr))
                        ELSE Assign(h, base, k, pv)
               IN IF w.err # "none" THEN w
                  ELSE MergeKeys(w.heap, base, patch, ks, i + 1, depth)

\* mergeDeep(base, patch) for the object at address base; it returns base.
mergeDeepAt(h, base, patch, depth) ==
  IF depth > MaxStack THEN [err |-> "RangeError", heap |-> h]
  ELSE IF isPrimitive(patch) THEN [err |-> "none", heap |-> h]
  ELSE MergeKeys(h, base, patch[2], ObjectKeys(h[patch[2]]), 1, depth + 1)

mergeDeep(h, base, patch) == mergeDeepAt(h, base, patch, 1)

\* --------------------------------------------------------- compareByKeys
\* Number(v) of a primitive v: a one-character string is a number when the
\* character is a digit, NaN otherwise.
ToNumber(v) ==
  IF v[1] = "number" THEN v
  ELSE IF v = Null THEN Num(0)
  ELSE IF v[1] = "string" /\ v[2] \in 48..57 THEN Num(v[2] - 48)
  ELSE NaN

\* av < bv of the host on primitives: two strings by their code units, any
\* other pair as numbers; false when either number is NaN.
Less(av, bv) ==
  IF av[1] = "string" /\ bv[1] = "string" THEN av[2] < bv[2]
  ELSE /\ ToNumber(av) # NaN
       /\ ToNumber(bv) # NaN
       /\ ToNumber(av)[2] < ToNumber(bv)[2]

\* av > bv
Greater(av, bv) == Less(bv, av)

\* v === null, the test that lets undefined through.
LooseNull_Strict(v) == v = Null

\* v == null: null or undefined
LooseNull(v) == v = Null \/ v = Undefined

\* for (const key of keys), key i onwards
RECURSIVE CompareFrom(_, _, _, _)
CompareFrom(a, b, keys, i) ==
  IF i > Len(keys) THEN 0
  ELSE LET av == Get(a, keys[i])
           bv == Get(b, keys[i])
       IN IF StrictEq(av, bv) THEN CompareFrom(a, b, keys, i + 1)
          ELSE IF LooseNull(av) THEN -1
          ELSE IF LooseNull(bv) THEN 1
          ELSE IF Less(av, bv) THEN -1
          ELSE IF Greater(av, bv) THEN 1
          ELSE CompareFrom(a, b, keys, i + 1)

\* orderBy && orderBy.length > 0 ? orderBy : Object.keys(a)
CompareKeys(h, a, orderBy) ==
  IF orderBy.given /\ Len(orderBy.keys) > 0 THEN orderBy.keys ELSE ObjectKeys(h[a[2]])

compareByKeys(h, a, b, orderBy) ==
  [err |-> "none", val |-> CompareFrom(h[a[2]], h[b[2]], CompareKeys(h, a, orderBy), 1)]

\* ------------------------------------------------------------- DataClass
\* The record class of the client program: class User extends DataClass
\* { age = 0; email?: string }, with the field names 'a' and 'e'.
DeclaredKeys == <<97, 101>>
DeclaredDefaults == <<Num(0), Undefined>>

\* new this(): an instance with the declared fields at their defaults.
NewInstance ==
  [kind |-> "object", keys |-> DeclaredKeys, vals |-> DeclaredDefaults, sealed |-> FALSE]

\* Object.assign(target, source): every own property of source, undefined
\* values included, written to target in order.
RECURSIVE AssignFrom(_, _, _, _, _)
AssignFrom(h, target, src, ks, i) ==
  IF i > Len(ks) THEN [err |-> "none", heap |-> h]
  ELSE LET w == Assign(h, target, ks[i], Get(src, ks[i]))
       IN IF w.err # "none" THEN w ELSE AssignFrom(w.heap, target, src, ks, i + 1)

ObjectAssign(h, target, source) ==
  IF isPrimitive(source) THEN [err |-> "none", heap |-> h]
  ELSE AssignFrom(h, target, h[source[2]], ObjectKeys(h[source[2]]), 1)

\* The instance left unsealed.
Seal_Off(h, a) == h

\* Object.seal(instance)
Seal(h, a) == [h EXCEPT ![a].sealed = TRUE]

\* A patch argument that is given: if (patch) ...
Truthy(v) == v[1] = "ref"

\* static create(patch)
create(h, patch) ==
  LET h1 == Alloc(h, NewInstance)
      instance == Len(h) + 1
      w == IF Truthy(patch) THEN ObjectAssign(h1, instance, patch)
           ELSE [err |-> "none", heap |-> h1]
  IN IF w.err # "none" THEN [err |-> w.err, heap |-> w.heap, val |-> Undefined]
     ELSE [err |-> "none", heap |-> Seal(w.heap, instance), val |-> Ref(instance)]

\* new this(); Object.assign(copy, from); return Object.seal(copy)
SealedCopyOf(h, from) ==
  LET h1 == Alloc(h, NewInstance)
      copy == Len(h) + 1
      w == ObjectAssign(h1, copy, from)
  IN IF w.err # "none" THEN [err |-> w.err, heap |-> w.heap, val |-> Undefined]
     ELSE [err |-> "none", heap |-> Seal(w.heap, copy), val |-> Ref(copy)]

\* The instance itself as the base, the spread left out.
CopyBase_Alias(h, instance) == [err |-> "none", heap |-> h, val |-> instance]

\* The base of a copy that is not deep: { ...instance }.
CopyBase(h, instance) ==
  [err |-> "none", heap |-> Alloc(h, Spread(h[instance[2]])), val |-> Ref(Len(h) + 1)]

\* static copy(instance, patch, options)
copy(h, instance, patch, deep) ==
  LET b == IF deep THEN clone(h, instance, TRUE) ELSE CopyBase(h, instance)
  IN IF b.err # "none" THEN b
     ELSE LET m == IF Truthy(patch) THEN mergeDeep(b.heap, b.val[2], patch)
                   ELSE [err |-> "none", heap |-> b.heap]
          IN IF m.err # "none" THEN [err |-> m.err, heap |-> m.heap, val |-> Undefined]
             ELSE SealedCopyOf(m.heap, b.val)

\* static update(instance, patch, options)
update(h, instance, patch, deep) == copy(h, instance, patch, deep)

\* static clone(instance, options)
cloneInstance(h, instance, deep) ==
  LET c == clone(h, instance, deep)
  IN IF c.err # "none" THEN c ELSE SealedCopyOf(c.heap, c.val)

\* static equals(a, b, deep = true)
equals(h, a, b) == deepEqual(h, a, b)

\* static toString(instance)
toString(h, instance) == stableStringify(h, instance)

\* The instance methods.
\* copy(patch, options) { return this.constructor.copy(this, patch, options) }
InstanceCopy(h, this, patch, deep) == copy(h, this, patch, deep)

\* update(patch, options) { mergeDeep(this, patch); return this }
InstanceUpdate(h, this, patch, deep) ==
  LET m == mergeDeep(h, this[2], patch)
  IN [err |-> m.err, heap |-> m.heap, val |-> IF m.err = "none" THEN this ELSE Undefined]

\* clone(options) { return this.constructor.clone(this, options) }
InstanceClone(h, this, deep) == cloneInstance(h, this, deep)

\* equals(other, deep = true)
InstanceEquals(h, this, other) == equals(h, this, other)

\* toString()
InstanceToString(h, this) == toString(h, this)

\* hashCode()
InstanceHashCode(h, this) == hashCode(h, this)

\* ------------------------------------------------------ the state machine
\* heap:  the objects and arrays of the program, by address.
\* heap0: the heap as it was when the last library call began.
\* pc:    "build" while the client program builds its values, "called" once
\*        it has made its library call, "written" once it has written to the
\*        result of that call.
\* last:  the last library call: its name, arguments and outcome.
NoCall == [op |-> "none", a |-> Undefined, b |-> Undefined, deep |-> FALSE,
           err |-> "none", val |-> Undefined]

Addrs(h) == 1..Len(h)

Refs(h) == {Ref(a) : a \in Addrs(h)}

Plain(h) == {a \in Addrs(h) : ~h[a].sealed}

Instances(h) == {a \in Addrs(h) : h[a].sealed}

\* What the client program has built: one for each plain object or array, one
\* for each of their properties and elements, one for each field of a record
\* it has written.
RECURSIVE SizeFrom(_, _)
SizeFrom(h, i) ==
  IF i > Len(h) THEN 0
  ELSE (IF h[i].sealed
        THEN Cardinality({j \in 1..Len(DeclaredKeys) : h[i].vals[j] # DeclaredDefaults[j]})
        ELSE 1 + Len(h[i].vals))
       + SizeFrom(h, i + 1)

Size(h) == SizeFrom(h, 1)

Building == pc = "build" /\ Size(heap) < MaxSize

\* The program has called nothing yet.
Init ==
  /\ heap = <<>>
  /\ heap0 = <<>>
  /\ pc = "build"
  /\ last = NoCall

\* The program has made one record: const u = User.create()
InitRecord ==
  /\ heap = create(<<>>, Undefined).heap
  /\ heap0 = <<>>
  /\ pc = "build"
  /\ last = NoCall

\* const o = {}
NewObject ==
  /\ Building
  /\ heap' = Alloc(heap, EmptyObject)
  /\ UNCHANGED <<heap0, pc, last>>

\* const o = []
NewArray ==
  /\ Building
  /\ heap' = Alloc(heap, EmptyArray)
  /\ UNCHANGED <<heap0, pc, last>>

\* o[k] = v, a new property of a plain object
SetProp(prims) ==
  /\ Building
  /\ \E o \in Plain(heap), k \in Keys, v \in prims \cup Refs(heap) :
        /\ heap[o].kind = "object"
        /\ ~HasOwn(heap[o], k)
        /\ heap' = [heap EXCEPT ![o] = PutProp(@, k, v)]
  /\ UNCHANGED <<heap0, pc, last>>

\* o.push(v)
Push(prims) ==
  /\ Building
  /\ \E o \in Plain(heap), v \in prims \cup Refs(heap) :
        /\ heap[o].kind = "array"
        /\ heap' = [heap EXCEPT ![o].vals = Append(@, v)]
  /\ UNCHANGED <<heap0, pc, last>>

\* u.age = v: a write to a declared field of the sealed record, still at its
\* default.
SetField ==
  /\ Building
  /\ \E u \in Instances(heap), j \in 1..Len(DeclaredKeys), v \in PatchVals \cup Refs(heap) :
        /\ heap[u].vals[j] = DeclaredDefaults[j]
        /\ v # DeclaredDefaults[j]
        /\ heap' = [heap EXCEPT ![u] = PutProp(@, DeclaredKeys[j], v)]
  /\ UNCHANGED <<heap0, pc, last>>

\* The call of a library function that leaves the heap alone.
Pure(op, a, b, r) ==
  /\ heap0' = heap
  /\ heap' = heap
  /\ pc' = "called"
  /\ last' = [op |-> op, a |-> a, b |-> b, deep |-> FALSE, err |-> r.err, val |-> r.val]

\* The call of a library function that allocates or writes.
Effect(op, a, b, deep, r) ==
  /\ heap0' = heap
  /\ heap' = r.heap
  /\ pc' = "called"
  /\ last' = [op |-> op, a |-> a, b |-> b, deep |-> deep, err |-> r.err, val |-> r.val]

\* The values the program passes to the library: the first object or array it
\* built, and the second.
ArgA == Ref(Cardinality(Instances(heap)) + 1)
ArgB == Ref(Cardinality(Instances(heap)) + 2)

HasA == pc = "build" /\ Len(heap) >= ArgA[2]

HasAB == pc = "build" /\ Len(heap) >= ArgB[2]

CallStableStringify ==
  /\ HasA
  /\ LET s == stableStringify(heap, ArgA)
     IN Pure("stableStringify", ArgA, Undefined, [err |-> s.err, val |-> s.out])

CallDeepEqual ==
  /\ HasAB
  /\ Pure("deepEqual", ArgA, ArgB, deepEqual(heap, ArgA, ArgB))

CallHashCode ==
  /\ HasA
  /\ Pure("hashCode", ArgA, Undefined, hashCode(heap, ArgA))

CallClone ==
  /\ HasA
  /\ \E deep \in BOOLEAN : Effect("clone", ArgA, Undefined, deep, clone(heap, ArgA, deep))

\* A write by the client program to a node of the deep clone it was given.
WriteClone ==
  /\ pc = "called"
  /\ last.op = "clone"
  /\ last.deep
  /\ last.err = "none"
  /\ \E o \in (Addrs(heap) \ Addrs(heap0)), k \in Keys :
        heap' = [heap EXCEPT ![o] = IF @.kind = "array"
                                     THEN [@ EXCEPT !.vals = Append(@, Num(1))]
                                     ELSE PutProp(@, k, Num(1))]
  /\ pc' = "written"
  /\ UNCHANGED <<heap0, last>>

\* The record of the program, and the patches it passes: the first object it
\* built, or none.
TheRecord == Ref(1)

Patches == {Undefined} \cup (IF Len(heap) >= ArgA[2] /\ IsObject(heap, ArgA) THEN {ArgA} ELSE {})

CallCreate ==
  /\ pc = "build"
  /\ \E patch \in Patches :
        Effect("create", Undefined, patch, FALSE, create(heap, patch))

CallCopy ==
  /\ pc = "build"
  /\ \E patch \in Patches, deep \in BOOLEAN :
        Effect("copy", TheRecord, patch, deep, copy(heap, TheRecord, patch, deep))

\* User.update(u, patch)
CallUpdate ==
  /\ pc = "build"
  /\ \E patch \in Patches \ {Undefined} :
        Effect("update", TheRecord, patch, FALSE, update(heap, TheRecord, patch, FALSE))

\* u.copy(patch)
CallInstanceCopy ==
  /\ pc = "build"
  /\ \E patch \in Patches \ {Undefined} :
        Effect("instance.copy", TheRecord, patch, FALSE,
               InstanceCopy(heap, TheRecord, patch, FALSE))

\* u.update(patch)
CallInstanceUpdate ==
  /\ pc = "build"
  /\ \E patch \in Patches \ {Undefined} :
        Effect("instance.update", TheRecord, patch, FALSE,
               InstanceUpdate(heap, TheRecord, patch, FALSE))

Next ==
  \/ NewObject
  \/ NewArray
  \/ SetProp(PrimVals)
  \/ Push(PrimVals)
  \/ CallStableStringify
  \/ CallDeepEqual
  \/ CallHashCode
  \/ CallClone
  \/ WriteClone

\* The kernel, called on the values a program built.
Spec == Init /\ [][Next]_vars

NextRecord ==
  \/ NewObject
  \/ NewArray
  \/ SetProp(PatchVals)
  \/ Push(PatchVals)
  \/ SetField
  \/ CallCreate
  \/ CallCopy
  \/ CallUpdate
  \/ CallInstanceCopy
  \/ CallInstanceUpdate

\* The record operations, called on a record and the values a program built.
SpecRecord == InitRecord /\ [][NextRecord]_vars

\* The primitive values of the fields a program compares: undefined, null,
\* NaN, 1, 2, "A", "B".
CompareVals == {Undefined, Null, NaN, Num(1), Num(2), Str(65), Str(66)}

\* The key lists it passes as orderBy: none, [], ['a'], ['b'], ['a', 'b'],
\* ['b', 'a'].
OrderBys ==
  {[given |-> FALSE, keys |-> <<>>]}
    \cup {[given |-> TRUE, keys |-> ks] : ks \in {<<>>, <<97>>, <<98>>, <<97, 98>>, <<98, 97>>}}

\* The fields the program has written.
RECURSIVE FieldsFrom(_, _)
FieldsFrom(h, i) == IF i > Len(h) THEN 0 ELSE Len(h[i].keys) + FieldsFrom(h, i + 1)

\* The program has made the two values it will compare: const a = {}, b = {}
InitCompare ==
  /\ heap = <<EmptyObject, EmptyObject>>
  /\ heap0 = <<>>
  /\ pc = "build"
  /\ last = NoCall

\* o[k] = v, a new property with a primitive value
SetValue ==
  /\ pc = "build"
  /\ FieldsFrom(heap, 1) < MaxFields
  /\ \E o \in Addrs(heap), k \in Keys, v \in CompareVals :
        /\ ~HasOwn(heap[o], k)
        /\ heap' = [heap EXCEPT ![o] = PutProp(@, k, v)]
  /\ UNCHANGED <<heap0, pc, last>>

\* compareByKeys(a, b, orderBy)
CallCompareByKeys ==
  /\ pc = "build"
  /\ \E orderBy \in OrderBys :
        LET r == compareByKeys(heap, Ref(1), Ref(2), orderBy)
        IN /\ heap0' = heap
           /\ heap' = heap
           /\ pc' = "called"
           /\ last' = [op |-> "compareByKeys", a |-> Ref(1), b |-> Ref(2), deep |-> FALSE,
                       err |-> r.err, val |-> r.val, orderBy |-> orderBy]

NextCompare ==
  \/ SetValue
  \/ CallCompareByKeys

\* The ordering engine, called on two values a program built.
SpecCompare == InitCompare /\ [][NextCompare]_vars

\* ------------------------------------------------------------ the claims
\* The nodes a node refers to, and the nodes reachable from a set of nodes.
Succ(h, n) == {h[n].vals[i][2] : i \in {j \in 1..Len(h[n].vals) : h[n].vals[j][1] = "ref"}}

RECURSIVE ReachFrom(_, _)
ReachFrom(h, S) ==
  LET T == S \cup UNION {Succ(h, n) : n \in S}
  IN IF T = S THEN S ELSE ReachFrom(h, T)

Reach(h, v) == IF isPrimitive(v) THEN {} ELSE ReachFrom(h, {v[2]})

\* The value graph of v holds no reference cycle.
Acyclic(h, v) == \A n \in Reach(h, v) : n \notin ReachFrom(h, Succ(h, n))

\* The reference canonical form of an acyclic value graph: a mapping gives its
\* fields that are not undefined, by ascending name, as "name":value; a
\* sequence gives its elements in place, an undefined one as null.
Min(S) == CHOOSE x \in S : \A y \in S : x <= y

RECURSIVE Canonical(_, _)
RECURSIVE CanonicalFields(_, _, _)
RECURSIVE CanonicalElems(_, _, _)

CanonicalFields(h, o, names) ==
  IF names = {} THEN <<>>
  ELSE LET k == Min(names)
       IN JSONKey(k) \o <<58>> \o Canonical(h, Get(o, k))
          \o (IF names = {k} THEN <<>> ELSE <<44>> \o CanonicalFields(h, o, names \ {k}))

CanonicalElems(h, o, i) ==
  IF i > Len(o.vals) THEN <<>>
  ELSE Canonical(h, o.vals[i])
       \o (IF i = Len(o.vals) THEN <<>> ELSE <<44>> \o CanonicalElems(h, o, i + 1))

Canonical(h, v) ==
  IF isPrimitive(v)
  THEN (IF v = Undefined THEN <<110, 117, 108, 108>> ELSE JSONStringify(v))
  ELSE IF h[v[2]].kind = "array"
  THEN <<91>> \o CanonicalElems(h, h[v[2]], 1) \o <<93>>
  ELSE <<123>>
       \o CanonicalFields(h, h[v[2]],
            {h[v[2]].keys[i] : i \in {j \in 1..Len(h[v[2]].keys) : h[v[2]].vals[j] # Undefined}})
       \o <<125>>

\* C1: for acyclic a and b, deepEqual(a, b) is true if and only if
\* stableStringify(a) = stableStringify(b).
C1_DeepEqualIffSameString ==
  (last.op = "deepEqual" /\ Acyclic(heap0, last.a) /\ Acyclic(heap0, last.b))
    => /\ last.err = "none"
       /\ last.val <=> (stableStringify(heap0, last.a) = stableStringify(heap0, last.b))

\* C2: whenever deepEqual(a, b) is true, hashCode(a) = hashCode(b).
C2_EqualImpliesSameHash ==
  (last.op = "deepEqual" /\ last.err = "none" /\ last.val)
    => hashCode(heap0, last.a) = hashCode(heap0, last.b)

\* C3: on a value graph that holds a reference cycle, stableStringify and
\* hashCode end by raising the circular-structure error (the TypeError of
\* stableStringify), with no output; the recursion is never unbounded.
C3_CycleRaisesCircularError ==
  (last.op \in {"stableStringify", "hashCode"} /\ ~Acyclic(heap0, last.a))
    => last.err = "TypeError"

\* C4: on an acyclic value graph, stableStringify returns the reference
\* canonical form: fields by ascending name whatever the insertion order,
\* undefined fields left out, undefined elements as null.
C4_StringifyIsCanonical ==
  (last.op = "stableStringify" /\ Acyclic(heap0, last.a))
    => /\ last.err = "none"
       /\ last.val = Canonical(heap0, last.a)

\* C4 witness: { b: [undefined], a: 1 }, built b first, gives {"a":1,"b":[null]}.
C4_Witness ==
  /\ last.op = "stableStringify"
  /\ heap0[last.a[2]].keys = <<98, 97>>
  /\ IsArray(heap0, Get(heap0[last.a[2]], 98))
  /\ last.val = <<123, 34, 97, 34, 58, 49, 44, 34, 98, 34, 58, 91, 110, 117, 108, 108, 93, 125>>

\* What the last call gave: its error, the heap it left, the value it returned.
Outcome == [err |-> last.err, heap |-> heap, val |-> last.val]

\* Two values are the same field value: the same primitive, or structures
\* with the same canonical form.
SameValue(h0, v0, h, v) ==
  IF isPrimitive(v0) \/ isPrimitive(v) THEN v0 = v
  ELSE stableStringify(h0, v0) = stableStringify(h, v)

\* Every field the patch defines is held by the object at target: a
\* primitive as it is, a sequence as a sequence of the same elements, a
\* mapping as the patch mapping itself or as a mapping holding its fields.
RECURSIVE PatchHeld(_, _, _)
PatchHeld(h, target, patch) ==
  \A i \in 1..Len(h[patch].keys) :
    LET k == h[patch].keys[i]
        pv == h[patch].vals[i]
        tv == Get(h[target], k)
    IN \/ pv = Undefined
       \/ isPrimitive(pv) /\ tv = pv
       \/ IsArray(h, pv) /\ IsArray(h, tv) /\ h[tv[2]].vals = h[pv[2]].vals
       \/ IsObject(h, pv) /\ IsObject(h, tv) /\ (tv = pv \/ PatchHeld(h, tv[2], pv[2]))

\* C5: copy(instance, patch), deep or not, returns a new sealed instance
\* whose patched fields hold the patch values, and leaves every node
\* reachable from the original as it was.
C5_CopyLeavesOriginal ==
  (last.op \in {"copy", "instance.copy"})
    => /\ \A n \in Reach(heap0, last.a) : heap[n] = heap0[n]
       /\ (Acyclic(heap0, last.a) /\ Acyclic(heap0, last.b))
            => /\ last.err = "none"
               /\ last.val \in Refs(heap) \ Refs(heap0)
               /\ heap[last.val[2]].sealed
               /\ last.b # Undefined => PatchHeld(heap, last.val[2], last.b[2])

\* C5 witness: a copy whose patch merges a mapping with a defined field into
\* a mapping field of the record.
C5_Witness ==
  /\ last.op = "copy"
  /\ last.err = "none"
  /\ last.b # Undefined
  /\ IsObject(heap0, Get(heap0[1], 97))
  /\ IsObject(heap0, Get(heap0[last.b[2]], 97))
  /\ Get(heap0[Get(heap0[last.b[2]], 97)[2]], 98) = Num(1)
  /\ Get(heap0[Get(heap0[1], 97)[2]], 98) = Undefined
  /\ Get(heap[Get(heap[last.val[2]], 97)[2]], 98) = Num(1)

\* The object the last call merged the patch into: the record itself for the
\* in-place update, the instance returned for a copy.
MergedInto == IF last.op = "instance.update" THEN last.a ELSE last.val

\* Every patch key whose value is undefined left the field of the base
\* alone, at this level and in every mapping the merge went into.
RECURSIVE NoopHeld(_, _, _)
NoopHeld(before, after, patch) ==
  \A i \in 1..Len(heap0[patch].keys) :
    LET k == heap0[patch].keys[i]
        pv == heap0[patch].vals[i]
        bv == Get(heap0[before], k)
        av == Get(heap[after], k)
    IN /\ pv = Undefined
            => /\ HasOwn(heap[after], k) = HasOwn(heap0[before], k)
               /\ SameValue(heap0, bv, heap, av)
       /\ (IsObject(heap0, pv) /\ IsObject(heap0, bv))
            => /\ IsObject(heap, av)
               /\ NoopHeld(bv[2], av[2], pv[2])

AllUndefined(h, patch) ==
  patch = Undefined \/ \A i \in 1..Len(h[patch[2]].vals) : h[patch[2]].vals[i] = Undefined

\* C6: a patch key whose value is undefined is a no-op at every level, on
\* the in-place update and on the patch of copy; an empty or all-undefined
\* patch leaves the canonical form of the base as it was.
C6_UndefinedIsNoop ==
  (/\ last.op \in {"copy", "update", "instance.copy", "instance.update"}
   /\ Acyclic(heap0, last.a) /\ Acyclic(heap0, last.b)
   /\ last.op # "instance.update" => last.err = "none")
    => /\ last.b # Undefined => NoopHeld(last.a[2], MergedInto[2], last.b[2])
       /\ AllUndefined(heap0, last.b)
            => /\ last.err = "none"
               /\ stableStringify(heap, MergedInto) = stableStringify(heap0, last.a)

\* C6 witness: an in-place update whose patch goes into a mapping field and
\* there names, with undefined, a field the base mapping defines.
C6_Witness ==
  /\ last.op = "instance.update"
  /\ last.err = "none"
  /\ IsObject(heap0, Get(heap0[1], 97))
  /\ IsObject(heap0, Get(heap0[last.b[2]], 97))
  /\ \E k \in Keys :
        /\ HasOwn(heap0[Get(heap0[last.b[2]], 97)[2]], k)
        /\ Get(heap0[Get(heap0[last.b[2]], 97)[2]], k) = Undefined
        /\ Get(heap0[Get(heap0[1], 97)[2]], k) # Undefined
        /\ Get(heap[Get(heap[1], 97)[2]], k) = Get(heap0[Get(heap0[1], 97)[2]], k)

\* C7: an in-place update that fails leaves the instance as it was before
\* the call.
C7_UpdateIsAtomic ==
  (last.op = "instance.update" /\ last.err # "none") => heap[last.a[2]] = heap0[last.a[2]]

\* The patch keys the record does not declare, with a value that is defined.
UnknownKeys(h, patch) ==
  {h[patch[2]].keys[i] : i \in {j \in 1..Len(h[patch[2]].keys) :
                                  /\ ~HasOwn(NewInstance, h[patch[2]].keys[j])
                                  /\ h[patch[2]].vals[j] # Undefined}}

Accepted(target) ==
  /\ last.err = "none"
  /\ \A k \in UnknownKeys(heap0, last.b) :
        /\ HasOwn(heap[target[2]], k)
        /\ SameValue(heap0, Get(heap0[last.b[2]], k), heap, Get(heap[target[2]], k))

C9_InstanceMirrorsStatic ==
  /\ last.op = "instance.copy" => Outcome = copy(heap0, last.a, last.b, last.deep)
  /\ last.op = "instance.update" => Outcome = update(heap0, last.a, last.b, last.deep)

\* C10: the deep clone c of an acyclic a is deep-equal to a and shares no
\* node with a; writes to the nodes of c leave the nodes of a as they were.
C10_DeepCloneEqualAndIndependent ==
  (last.op = "clone" /\ last.deep /\ Acyclic(heap0, last.a))
    => /\ last.err = "none"
       /\ pc = "called" => deepEqual(heap, last.a, last.val).val
       /\ Reach(heap, last.val) \cap Reach(heap0, last.a) = {}
       /\ \A n \in Reach(heap0, last.a) : heap[n] = heap0[n]

\* The two values of the last comparison, its key list, and their fields.
CmpA == heap0[last.a[2]]

CmpB == heap0[last.b[2]]

CmpKeys == IF last.orderBy.given /\ last.orderBy.keys # <<>> THEN last.orderBy.keys ELSE CmpA.keys

\* A concrete value: neither null nor absent.
Concrete(v) == v # Null /\ v # Undefined

\* x is the smaller of two numbers or of two strings.
Smaller(x, y) == x[1] = y[1] /\ x[1] \in {"number", "string"} /\ x[2] < y[2]

\* The two values differ on key i of the key list.
Differ(i) == Get(CmpA, CmpKeys[i]) # Get(CmpB, CmpKeys[i])

\* The two values differ on key i and one is before the other: one of them
\* is null or absent, or one is the smaller.
Orders(i) ==
  LET av == Get(CmpA, CmpKeys[i])
      bv == Get(CmpB, CmpKeys[i])
  IN Differ(i) /\ (~Concrete(av) \/ ~Concrete(bv) \/ Smaller(av, bv) \/ Smaller(bv, av))

\* The result is the one key i gives: not 0, -1 when the value of a is the
\* null or absent one or the smaller one, 1 when that of b is.
DecidedAt(i) ==
  LET av == Get(CmpA, CmpKeys[i])
      bv == Get(CmpB, CmpKeys[i])
  IN /\ last.val # 0
     /\ (~Concrete(av) /\ Concrete(bv)) => last.val = -1
     /\ (Concrete(av) /\ ~Concrete(bv)) => last.val = 1
     /\ (Concrete(av) /\ Concrete(bv) /\ Smaller(av, bv)) => last.val = -1
     /\ (Concrete(av) /\ Concrete(bv) /\ Smaller(bv, av)) => last.val = 1

\* C11 as stated: compareByKeys returns -1, 0 or 1, decided by the first
\* key of the key list on which the two values differ (null or absent
\* before concrete, else the smaller first), and 0 only when the values
\* differ on no key.
C11_FirstDifferingKeyDecides ==
  last.op = "compareByKeys"
    => /\ last.err = "none"
       /\ last.val \in {-1, 0, 1}
       /\ \A i \in 1..Len(CmpKeys) :
            (Differ(i) /\ \A j \in 1..(i - 1) : ~Differ(j)) => DecidedAt(i)
       /\ (\A i \in 1..Len(CmpKeys) : ~Differ(i)) => last.val = 0

\* C11 as amended: compareByKeys returns -1, 0 or 1, decided by the first
\* key of the key list on which the two values differ and one is before the
\* other; equal values and pairs the host orders neither way (NaN against a
\* number, a number against a string that is no number) skip to the next
\* key, and the result is 0 exactly when no key orders the two values.
C11_FirstOrderingKeyDecides ==
  last.op = "compareByKeys"
    => /\ last.err = "none"
       /\ last.val \in {-1, 0, 1}
       /\ \A i \in 1..Len(CmpKeys) :
            (Orders(i) /\ \A j \in 1..(i - 1) : ~Orders(j)) => DecidedAt(i)
       /\ (\A i \in 1..Len(CmpKeys) : ~Orders(i)) => last.val = 0

\* C11 witness: { a: 1, b: 2 } against { a: 1 } by ['a', 'b']: 'a' is equal
\* and skipped, 'b' is absent on the right, the result is 1.
C11_Witness ==
  /\ last.op = "compareByKeys"
  /\ last.orderBy.keys = <<97, 98>>
  /\ Get(CmpA, 97) = Num(1)
  /\ Get(CmpB, 97) = Num(1)
  /\ Get(CmpA, 98) = Num(2)
  /\ ~HasOwn(CmpB, 98)
  /\ last.val = 1

\* A mapping of the value graph of v that two properties or elements of the
\* graph refer to.
Shared(h, v) ==
  \E o \in Reach(h, v) :
    /\ h[o].kind = "object"
    /\ Cardinality({<<n, i>> \in Reach(h, v) \X (1..MaxSize) :
                      i <= Len(h[n].vals) /\ h[n].vals[i] = Ref(o)}) >= 2

\* C12: on an acyclic value graph in which a mapping is reached through two
\* paths, stableStringify raises no circular-reference error and renders the
\* mapping in full at each occurrence.
C12_SharedMappingIsNoCycle ==
  (last.op = "stableStringify" /\ Acyclic(heap0, last.a) /\ Shared(heap0, last.a))
    => /\ last.err # "TypeError"
       /\ last.val = Canonical(heap0, last.a)

\* C12 witness: const o = { a: 1 }; stableStringify({ a: o, b: o }) gives
\* {"a":{"a":1},"b":{"a":1}}.
C12_Witness ==
  /\ last.op = "stableStringify"
  /\ last.err = "none"
  /\ IsObject(heap0, Get(heap0[last.a[2]], 97))
  /\ Get(heap0[last.a[2]], 98) = Get(heap0[last.a[2]], 97)
  /\ Get(heap0[Get(heap0[last.a[2]], 97)[2]], 97) = Num(1)
  /\ last.val = <<123, 34, 97, 34, 58, 123, 34, 97, 34, 58, 49, 125, 44,
                  34, 98, 34, 58, 123, 34, 97, 34, 58, 49, 125, 125>>

\* C13: with an explicit key list that is not empty, compareByKeys(a, b,
\* orderBy) is the negation of compareByKeys(b, a, orderBy), also when a
\* field is null on one side and undefined or absent on the other.
C13_CompareIsAntisymmetric ==
  (last.op = "compareByKeys" /\ last.orderBy.given /\ last.orderBy.keys # <<>>)
    => last.val = -(compareByKeys(heap0, last.b, last.a, last.orderBy).val)

====
